---- MODULE Spec2Model ----
(***************************************************************************)
(* Model of the baze64 Base64 codec (crates/baze64): the Alphabet trait    *)
(* with its Standard and UrlSafe implementations, and Base64String with    *)
(* encode_with, decode, decode_into, from_encoded_with and                 *)
(* change_alphabet_with.                                                   *)
(*                                                                         *)
(* A char is modelled as its Unicode scalar value and a u8 as a number in  *)
(* 0..255; a String is the sequence of its chars, and String::len() is the *)
(* sum of the chars' UTF-8 lengths.  A Result is a record with field ok.   *)
(***************************************************************************)
EXTENDS Integers, Sequences, FiniteSets, TLC

\* ---------------------------------------------------------------- bounds
\* longest byte sequence given to encode_with
MaxLen == 4
\* longest raw text given to from_encoded_with
MaxRaw == 2
\* most change_alphabet_with calls applied to one value
MaxHops == 2
\* longest raw text that follows one full group of 4 symbols
MaxTail == 2
\* longest text typed into the GUI's plaintext field
MaxPlain == 2
\* largest char given to decode_char
MaxChar == 255

\* byte values the inputs are drawn from: 0x00 and 0xFB (0xFB 0xFB 0xFB is
\* "+/v7": it produces the symbols 62 and 63 on which the alphabets differ)
ByteSet == {0, 251}

\* chars raw texts are drawn from: NUL, '+' (a symbol of Standard only),
\* '=', 'Q' (a symbol of every alphabet) and U+00E9 (two bytes in UTF-8)
RawChars == {0, 43, 61, 81, 233}

\* chars typed into the GUI's plaintext field: 'A', U+00E9, U+20AC and
\* U+1F600 (1, 2, 3 and 4 bytes in UTF-8)
PlainChars == {65, 233, 8364, 128512}

\* ------------------------------------------------------- Result and errors
Ok(v) == [ok |-> TRUE, val |-> v]
Err(e) == [ok |-> FALSE, err |-> e]
\* the ? operator: the error, or the rest of the function on the value
Try(r, Rest(_)) == IF r.ok THEN Rest(r.val) ELSE r
\* a match on a Result
Match(r, OnOk(_), OnErr(_)) == IF r.ok THEN OnOk(r.val) ELSE OnErr(r)
\* a let binding
Let(v, In(_)) == In(v)
BitsOOB(bits) == <<"BitsOOB", bits>>
InvalidChar(c) == <<"InvalidChar", c>>
Unreachable == <<"panic", "Mathematically impossible">>

\* Option<char>: None, or the char itself
None == -1
\* char::default() and `0 as char`
NUL == 0
\* the value decode_char returns for NUL
SENTINEL == 100
unwrap_or_default(o) == IF o = None THEN NUL ELSE o

\* ------------------------------------------------------------ bit arithmetic
RECURSIVE BitOr(_, _)
BitOr(x, y) ==
    IF x = 0 THEN y
    ELSE IF y = 0 THEN x
    ELSE (IF x % 2 = 1 \/ y % 2 = 1 THEN 1 ELSE 0) + 2 * BitOr(x \div 2, y \div 2)

\* The operands are u8 values widened to u32 and shifted by at most 18, so
\* every intermediate value is below 2^26 and no shift overflows the u32.
Pow2(k) == IF k = 0 THEN 1 ELSE 2 ^ k
Shl(x, k) == x * Pow2(k)
Shr(x, k) == x \div Pow2(k)
Mask(x, k) == x % Pow2(k)

\* char::len_utf8
len_utf8(c) == IF c < 128 THEN 1 ELSE IF c < 2048 THEN 2 ELSE IF c < 65536 THEN 3 ELSE 4

\* String::len(): the length in bytes
RECURSIVE str_len(_)
str_len(s) == IF s = <<>> THEN 0 ELSE len_utf8(Head(s)) + str_len(Tail(s))

Min(a, b) == IF a < b THEN a ELSE b

\* chunks that loses the shorter last chunk
chunks_dropping_remainder(s, n) ==
    [i \in 1..(Len(s) \div n) |-> SubSeq(s, (i - 1) * n + 1, i * n)]

\* chunks that takes one element too many into each chunk
chunks_one_longer(s, n) ==
    [i \in 1..((Len(s) + n) \div (n + 1)) |->
        SubSeq(s, (i - 1) * (n + 1) + 1, Min(i * (n + 1), Len(s)))]

\* slice::chunks(n): consecutive chunks, the last one possibly shorter
chunks(s, n) ==
    [i \in 1..((Len(s) + n - 1) \div n) |-> SubSeq(s, (i - 1) * n + 1, Min(i * n, Len(s)))]

\* slice::chunks_exact(n): only the chunks of exactly n elements
chunks_exact(s, n) ==
    [i \in 1..(Len(s) \div n) |-> SubSeq(s, (i - 1) * n + 1, i * n)]

\* ChunksExact::remainder: the elements chunks_exact(n) leaves out
remainder(s, n) == SubSeq(s, Len(s) - (Len(s) % n) + 1, Len(s))

\* slice::ends_with
ends_with(s, suffix) ==
    /\ Len(suffix) <= Len(s)
    /\ SubSeq(s, Len(s) - Len(suffix) + 1, Len(s)) = suffix

\* ------------------------------------------------------------------ Alphabet
\* Standard and UrlSafe are the crate's implementations.  Unpadded stands
\* for an implementation of the trait whose padding() returns None, which
\* the trait's signature allows: it has Standard's table and lookup.
Rfc4648Alphabets == {"Standard", "UrlSafe"}
Alphabets == Rfc4648Alphabets \cup {"Unpadded"}

\* Standard's table with '+' in both of the last two places
StandardMapRepeated ==
    <<
       65, 66, 67, 68, 69, 70, 71, 72, 73, 74, 75, 76, 77, 78, 79, 80,
       81, 82, 83, 84, 85, 86, 87, 88, 89, 90, 97, 98, 99, 100, 101, 102,
       103, 104, 105, 106, 107, 108, 109, 110, 111, 112, 113, 114, 115, 116, 117, 118,
       119, 120, 121, 122, 48, 49, 50, 51, 52, 53, 54, 55, 56, 57, 43, 43
    >>

StandardMap ==
    <<
       65, 66, 67, 68, 69, 70, 71, 72, 73, 74, 75, 76, 77, 78, 79, 80,
       81, 82, 83, 84, 85, 86, 87, 88, 89, 90, 97, 98, 99, 100, 101, 102,
       103, 104, 105, 106, 107, 108, 109, 110, 111, 112, 113, 114, 115, 116, 117, 118,
       119, 120, 121, 122, 48, 49, 50, 51, 52, 53, 54, 55, 56, 57, 43, 47
    >>

\* UrlSafe's table with '_' and '-' in each other's place
UrlSafeMapSwapped ==
    <<
       65, 66, 67, 68, 69, 70, 71, 72, 73, 74, 75, 76, 77, 78, 79, 80,
       81, 82, 83, 84, 85, 86, 87, 88, 89, 90, 97, 98, 99, 100, 101, 102,
       103, 104, 105, 106, 107, 108, 109, 110, 111, 112, 113, 114, 115, 116, 117, 118,
       119, 120, 121, 122, 48, 49, 50, 51, 52, 53, 54, 55, 56, 57, 95, 45
    >>

UrlSafeMap ==
    <<
       65, 66, 67, 68, 69, 70, 71, 72, 73, 74, 75, 76, 77, 78, 79, 80,
       81, 82, 83, 84, 85, 86, 87, 88, 89, 90, 97, 98, 99, 100, 101, 102,
       103, 104, 105, 106, 107, 108, 109, 110, 111, 112, 113, 114, 115, 116, 117, 118,
       119, 120, 121, 122, 48, 49, 50, 51, 52, 53, 54, 55, 56, 57, 45, 95
    >>

encode_map(alphabet) == IF alphabet = "UrlSafe" THEN UrlSafeMap ELSE StandardMap

padding(alphabet) == IF alphabet = "Unpadded" THEN None ELSE 61

encode_bits(alphabet, bits) ==
    IF bits > 63 THEN Err(BitsOOB(bits))
    ELSE Ok(encode_map(alphabet)[bits + 1])

\* Iterator::position: the index of the first match
position(map, c) ==
    IF \E i \in 1..Len(map) : map[i] = c
    THEN (CHOOSE i \in 1..Len(map) : map[i] = c /\ \A j \in 1..(i - 1) : map[j] # c) - 1
    ELSE None

\* decode_char that looks the padding char up in the map of symbols
decode_char_padding_looked_up(alphabet, c) ==
    IF c = NUL THEN Ok(SENTINEL)
    ELSE Let(position(encode_map(alphabet), c), LAMBDA i :
         IF i = None THEN Err(InvalidChar(c)) ELSE Ok(i % 256))

decode_char(alphabet, c) ==
    IF padding(alphabet) # None /\ c = padding(alphabet) THEN Ok(0)
    ELSE IF c = NUL THEN Ok(SENTINEL)
    ELSE Let(position(encode_map(alphabet), c), LAMBDA i :
         IF i = None THEN Err(InvalidChar(c)) ELSE Ok(i % 256))

\* -------------------------------------------------------------- Base64String
\* A Base64String is [content, alphabet]; NoValue stands for "no value
\* exists" (before construction, or after a failed change_alphabet_with
\* consumed it).
Base64String(content, alphabet) == [content |-> content, alphabet |-> alphabet]
NoValue == [content |-> <<>>, alphabet |-> "none"]

\* encode_triplet with the third field taken from the wrong offset
encode_triplet_shift8(t, alphabet) ==
    LET concated == BitOr(BitOr(Shl(t[1], 16), Shl(t[2], 8)), t[3])
        first == Mask(Shr(concated, 18), 6) % 256
        second == Mask(Shr(concated, 12), 6) % 256
        third == Mask(Shr(concated, 8), 6) % 256
        fourth == Mask(concated, 6) % 256
    IN  Try(encode_bits(alphabet, first), LAMBDA c1 :
        Try(encode_bits(alphabet, second), LAMBDA c2 :
        Try(encode_bits(alphabet, third), LAMBDA c3 :
        Try(encode_bits(alphabet, fourth), LAMBDA c4 :
        Ok(<<c1, c2, c3, c4>>)))))

\* triplet_bits with 7-bit masks
triplet_bits_mask7(t) ==
    LET concated == BitOr(BitOr(Shl(t[1], 16), Shl(t[2], 8)), t[3])
    IN  <<Mask(Shr(concated, 18), 7) % 256,
          Mask(Shr(concated, 12), 7) % 256,
          Mask(Shr(concated, 6), 7) % 256,
          Mask(concated, 7) % 256>>

\* first, second, third and fourth of encode_triplet
triplet_bits(t) ==
    LET concated == BitOr(BitOr(Shl(t[1], 16), Shl(t[2], 8)), t[3])
    IN  <<Mask(Shr(concated, 18), 6) % 256,
          Mask(Shr(concated, 12), 6) % 256,
          Mask(Shr(concated, 6), 6) % 256,
          Mask(concated, 6) % 256>>

\* Encodes a set of 3 bytes
encode_triplet(t, alphabet) ==
    Let(triplet_bits(t), LAMBDA f :
    Try(encode_bits(alphabet, f[1]), LAMBDA c1 :
    Try(encode_bits(alphabet, f[2]), LAMBDA c2 :
    Try(encode_bits(alphabet, f[3]), LAMBDA c3 :
    Try(encode_bits(alphabet, f[4]), LAMBDA c4 :
    Ok(<<c1, c2, c3, c4>>))))))

\* encode_chunk with a single padding char after a 1-byte chunk
encode_chunk_one_pad(chunk, alphabet, pad) ==
    IF Len(chunk) = 3 THEN encode_triplet(<<chunk[1], chunk[2], chunk[3]>>, alphabet)
    ELSE IF Len(chunk) = 2 THEN
        Try(encode_triplet(<<chunk[1], chunk[2], 0>>, alphabet), LAMBDA res :
        Ok(<<res[1], res[2], res[3], pad>>))
    ELSE IF Len(chunk) = 1 THEN
        Try(encode_triplet(<<chunk[1], 0, 0>>, alphabet), LAMBDA res :
        Ok(<<res[1], res[2], res[3], pad>>))
    ELSE Err(Unreachable)

\* the match on chunk.len() in encode_with: the 4 chars pushed for a chunk
encode_chunk(chunk, alphabet, pad) ==
    IF Len(chunk) = 3 THEN encode_triplet(<<chunk[1], chunk[2], chunk[3]>>, alphabet)
    ELSE IF Len(chunk) = 2 THEN
        Try(encode_triplet(<<chunk[1], chunk[2], 0>>, alphabet), LAMBDA res :
        Ok(<<res[1], res[2], res[3], pad>>))
    ELSE IF Len(chunk) = 1 THEN
        Try(encode_triplet(<<chunk[1], 0, 0>>, alphabet), LAMBDA res :
        Ok(<<res[1], res[2], pad, pad>>))
    ELSE Err(Unreachable)

\* the for loop of encode_with from chunk i on, `encoded` flattened
RECURSIVE encode_loop(_, _, _, _, _)
encode_loop(cs, i, encoded, alphabet, pad) ==
    IF i > Len(cs) THEN Ok(encoded)
    ELSE Try(encode_chunk(cs[i], alphabet, pad), LAMBDA quad :
         encode_loop(cs, i + 1, encoded \o quad, alphabet, pad))

encode_with(bytes, alphabet) ==
    Try(encode_loop(chunks(bytes, 3), 1, <<>>, alphabet,
                    unwrap_or_default(padding(alphabet))), LAMBDA content :
    Ok(Base64String(content, alphabet)))

\* decode_quad with the first char shifted by 16 instead of 18
decode_quad_shift16(q, alphabet) ==
    Try(decode_char(alphabet, q[1]), LAMBDA a :
    Try(decode_char(alphabet, q[2]), LAMBDA b :
    Try(decode_char(alphabet, q[3]), LAMBDA c :
    Try(decode_char(alphabet, q[4]), LAMBDA d :
    LET concat_bytes == BitOr(BitOr(BitOr(Shl(a, 16), Shl(b, 12)), Shl(c, 6)), d)
    IN  Ok(<<Mask(Shr(concat_bytes, 16), 8),
             Mask(Shr(concat_bytes, 8), 8),
             Mask(concat_bytes, 8)>>)))))

\* decode_quad with the third char shifted by 10 instead of 6
decode_quad_shift10(q, alphabet) ==
    Try(decode_char(alphabet, q[1]), LAMBDA a :
    Try(decode_char(alphabet, q[2]), LAMBDA b :
    Try(decode_char(alphabet, q[3]), LAMBDA c :
    Try(decode_char(alphabet, q[4]), LAMBDA d :
    LET concat_bytes == BitOr(BitOr(BitOr(Shl(a, 18), Shl(b, 12)), Shl(c, 10)), d)
    IN  Ok(<<Mask(Shr(concat_bytes, 16), 8),
             Mask(Shr(concat_bytes, 8), 8),
             Mask(concat_bytes, 8)>>)))))

\* Decode a set of 4 chars
decode_quad(q, alphabet) ==
    Try(decode_char(alphabet, q[1]), LAMBDA a :
    Try(decode_char(alphabet, q[2]), LAMBDA b :
    Try(decode_char(alphabet, q[3]), LAMBDA c :
    Try(decode_char(alphabet, q[4]), LAMBDA d :
    LET concat_bytes == BitOr(BitOr(BitOr(Shl(a, 18), Shl(b, 12)), Shl(c, 6)), d)
    IN  Ok(<<Mask(Shr(concat_bytes, 16), 8),
             Mask(Shr(concat_bytes, 8), 8),
             Mask(concat_bytes, 8)>>)))))

\* decode_seg that writes one byte too few for a segment with one padding
decode_seg_short(seg, alphabet, pad) ==
    IF ends_with(seg, <<pad, pad>>) \/ Len(seg) % 4 = 2 THEN
        Try(decode_quad(<<seg[1], seg[2], NUL, NUL>>, alphabet), LAMBDA tri :
        Ok(<<tri[1]>>))
    ELSE IF ends_with(seg, <<pad>>) \/ Len(seg) % 4 = 3 THEN
        Try(decode_quad(<<seg[1], seg[2], seg[3], NUL>>, alphabet), LAMBDA tri :
        Ok(SubSeq(tri, 1, 1)))
    ELSE
        decode_quad(<<seg[1], seg[2], seg[3], seg[4]>>, alphabet)

\* decode_seg that tests for one padding char before it tests for two
decode_seg_one_first(seg, alphabet, pad) ==
    IF ends_with(seg, <<pad>>) \/ Len(seg) % 4 = 3 THEN
        Try(decode_quad(<<seg[1], seg[2], seg[3], NUL>>, alphabet), LAMBDA tri :
        Ok(SubSeq(tri, 1, 2)))
    ELSE IF ends_with(seg, <<pad, pad>>) \/ Len(seg) % 4 = 2 THEN
        Try(decode_quad(<<seg[1], seg[2], NUL, NUL>>, alphabet), LAMBDA tri :
        Ok(<<tri[1]>>))
    ELSE
        decode_quad(<<seg[1], seg[2], seg[3], seg[4]>>, alphabet)

\* the body of the for loop of decode_into: the error of decode_quad or,
\* in val, the bytes written to buf for one segment
decode_seg(seg, alphabet, pad) ==
    IF ends_with(seg, <<pad, pad>>) \/ Len(seg) % 4 = 2 THEN
        Try(decode_quad(<<seg[1], seg[2], NUL, NUL>>, alphabet), LAMBDA tri :
        Ok(<<tri[1]>>))
    ELSE IF ends_with(seg, <<pad>>) \/ Len(seg) % 4 = 3 THEN
        Try(decode_quad(<<seg[1], seg[2], seg[3], NUL>>, alphabet), LAMBDA tri :
        Ok(SubSeq(tri, 1, 2)))
    ELSE
        decode_quad(<<seg[1], seg[2], seg[3], seg[4]>>, alphabet)

\* decode_loop that hands back an empty buf when a segment fails
RECURSIVE decode_loop_discarding(_, _, _, _, _)
decode_loop_discarding(segments, i, buf, alphabet, pad) ==
    IF i > Len(segments) THEN [res |-> Ok(<<>>), buf |-> buf]
    ELSE Match(decode_seg(segments[i], alphabet, pad),
               LAMBDA written :
                   decode_loop_discarding(segments, i + 1, buf \o written, alphabet, pad),
               LAMBDA e : [res |-> e, buf |-> <<>>])

\* the for loop of decode_into from segment i on; returns the Result and buf
RECURSIVE decode_loop(_, _, _, _, _)
decode_loop(segments, i, buf, alphabet, pad) ==
    IF i > Len(segments) THEN [res |-> Ok(<<>>), buf |-> buf]
    ELSE Match(decode_seg(segments[i], alphabet, pad),
               LAMBDA written : decode_loop(segments, i + 1, buf \o written, alphabet, pad),
               LAMBDA e : [res |-> e, buf |-> buf])

decode_into(self, buf) ==
    LET pad == unwrap_or_default(padding(self.alphabet))
        tmp == self.content
        segments == chunks_exact(tmp, 4)
    IN  decode_loop(segments, 1, buf, self.alphabet, pad)

decode(self) ==
    Let(decode_into(self, <<>>), LAMBDA r :
    Try(r.res, LAMBDA unit : Ok(r.buf)))

\* the loop of from_encoded_with as a do-while: it pushes before it tests
RECURSIVE pad_loop_push_first(_, _)
pad_loop_push_first(content, p) ==
    IF str_len(Append(content, p)) % 4 # 0
    THEN pad_loop_push_first(Append(content, p), p)
    ELSE Append(content, p)

\* the while loop of from_encoded_with
RECURSIVE pad_loop(_, _)
pad_loop(content, p) ==
    IF str_len(content) % 4 # 0 THEN pad_loop(Append(content, p), p) ELSE content

\* from_encoded_with that wraps the text as it is
from_encoded_with_as_is(b64, alphabet) == Base64String(b64, alphabet)

from_encoded_with(b64, alphabet) ==
    Let(padding(alphabet), LAMBDA p :
    Base64String(IF p # None THEN pad_loop(b64, p) ELSE b64, alphabet))

\* change_alphabet_with that encodes the text's own bytes, not the payload
change_alphabet_reencoding(self, target_alphabet) ==
    Try(decode(self), LAMBDA inner : encode_with(self.content, target_alphabet))

\* str::replace for single chars
replace(text, from, to) == [i \in 1..Len(text) |-> IF text[i] = from THEN to ELSE text[i]]

\* Returns a URL-safe version of a text (the first generation of the crate)
to_url_safe(text) == replace(replace(text, 43, 45), 47, 95)

\* Returns the encoded string with the padding removed
without_padding(self) ==
    SelectSeq(self.content, LAMBDA c : c # unwrap_or_default(padding(self.alphabet)))

change_alphabet_with(self, target_alphabet) ==
    Try(decode(self), LAMBDA inner : encode_with(inner, target_alphabet))

\* ------------------------------------------------------------------- state
VARIABLES
    bytes,    \* the bytes given to encode_with (<<>> when none were)
    raw,      \* the text given to from_encoded_with (<<>> when none was)
    origin,   \* "none", "encode", "from_encoded" or "alphabet": the first call
    orig,     \* the Base64String as first constructed
    cur,      \* the Base64String now held
    path,     \* the target alphabets of the change_alphabet_with calls so far
    op,       \* the last operation
    result,   \* what the last operation returned
    buf,      \* the buffer handed to the last decode_into, after the call
    call,     \* the alphabet and argument of an encode_bits or decode_char call
    app,      \* the GUI's App: [plaintext, base64, alphabet]
    prev      \* the plaintext before the last Encode click, as long as only
              \* the Decode click after it has followed; NoPlain otherwise

vars == <<bytes, raw, origin, orig, cur, path, op, result, buf, call, app, prev>>
\* the variables of the library calls (but op) and those of the GUI
lib == <<bytes, raw, origin, orig, cur, path, result, buf, call>>
gui == <<app, prev>>

RECURSIVE SeqsUpTo(_, _)
SeqsUpTo(S, n) ==
    IF n = 0 THEN {<<>>}
    ELSE LET shorter == SeqsUpTo(S, n - 1)
         IN  shorter \cup {Append(s, x) : s \in {t \in shorter : Len(t) = n - 1}, x \in S}

ByteSeqs == SeqsUpTo(ByteSet, MaxLen)
\* "QQQQ", a group of 4 symbols of every alphabet
FullGroup == <<81, 81, 81, 81>>
\* "Q+==" and "Q=+Q": groups with padding chars at their end and inside
PaddedGroups == {<<81, 43, 61, 61>>, <<81, 61, 43, 81>>}
\* chars that follow a group of PaddedGroups: '=' and 'Q'
TailChars == {61, 81}
\* texts of up to MaxRaw chars, "QQQQ" followed by up to MaxTail chars, and
\* a group of PaddedGroups followed by up to MaxTail chars of TailChars
RawTexts ==
    SeqsUpTo(RawChars, MaxRaw)
        \cup {FullGroup \o t : t \in SeqsUpTo(RawChars, MaxTail)}
        \cup {g \o t : g \in PaddedGroups, t \in SeqsUpTo(TailChars, MaxTail)}
\* the u8 values
U8 == 0..255
Chars == 0..MaxChar
NoCall == [alphabet |-> "none", arg |-> 0]

\* App::default(): empty fields and the Standard alphabet
AppDefault == [plaintext |-> <<>>, base64 |-> <<>>, alphabet |-> "Standard"]
\* no plaintext is remembered
NoPlain == <<None>>

Init ==
    /\ bytes = <<>>
    /\ raw = <<>>
    /\ origin = "none"
    /\ orig = NoValue
    /\ cur = NoValue
    /\ path = <<>>
    /\ op = "none"
    /\ result = Ok(<<>>)
    /\ buf = <<>>
    /\ call = NoCall
    /\ app = AppDefault
    /\ prev = NoPlain

\* Base64String::encode_with(b, alphabet), for any bytes and alphabet
Encode ==
    /\ origin = "none"
    /\ \E b \in ByteSeqs, alphabet \in Alphabets :
        \E r \in {encode_with(b, alphabet)} :
            /\ result' = r
            /\ cur' = (IF r.ok THEN r.val ELSE NoValue)
            /\ orig' = (IF r.ok THEN r.val ELSE NoValue)
            /\ bytes' = b
    /\ origin' = "encode"
    /\ op' = "encode"
    /\ UNCHANGED <<raw, path, buf, call>>
    /\ UNCHANGED gui

\* Base64String::from_encoded_with(t, alphabet), for any text and alphabet
FromEncoded ==
    /\ origin = "none"
    /\ \E t \in RawTexts, alphabet \in Alphabets :
        \E x \in {from_encoded_with(t, alphabet)} :
            /\ result' = Ok(x)
            /\ cur' = x
            /\ orig' = x
            /\ raw' = t
    /\ origin' = "from_encoded"
    /\ op' = "from_encoded"
    /\ UNCHANGED <<bytes, path, buf, call>>
    /\ UNCHANGED gui

\* cur.decode()
Decode ==
    /\ cur # NoValue
    /\ result' = decode(cur)
    /\ op' = "decode"
    /\ buf' = <<>>
    /\ UNCHANGED <<bytes, raw, origin, orig, cur, path, call>>
    /\ UNCHANGED gui

\* cur.decode_into(&mut buf) with an empty buf
DecodeInto ==
    /\ cur # NoValue
    /\ \E r \in {decode_into(cur, <<>>)} :
           /\ result' = r.res
           /\ buf' = r.buf
    /\ op' = "decode_into"
    /\ UNCHANGED <<bytes, raw, origin, orig, cur, path, call>>
    /\ UNCHANGED gui

\* cur.without_padding()
WithoutPadding ==
    /\ cur # NoValue
    /\ result' = Ok(without_padding(cur))
    /\ op' = "without_padding"
    /\ buf' = <<>>
    /\ UNCHANGED <<bytes, raw, origin, orig, cur, path, call>>
    /\ UNCHANGED gui

\* Base64String::from_encoded_with(cur.to_string(), cur.alphabet): a new
\* value wrapping the text of cur, which stays as it is
FromEncodedAgain ==
    /\ cur # NoValue
    /\ result' = Ok(from_encoded_with(cur.content, cur.alphabet))
    /\ op' = "from_encoded_again"
    /\ buf' = <<>>
    /\ UNCHANGED <<bytes, raw, origin, orig, cur, path, call>>
    /\ UNCHANGED gui

\* alphabet.encode_bits(bits), for any alphabet and u8
EncodeBits ==
    /\ origin = "none"
    /\ \E alphabet \in Alphabets, bits \in U8 :
           /\ result' = encode_bits(alphabet, bits)
           /\ call' = [alphabet |-> alphabet, arg |-> bits]
    /\ origin' = "alphabet"
    /\ op' = "encode_bits"
    /\ UNCHANGED <<bytes, raw, orig, cur, path, buf>>
    /\ UNCHANGED gui

\* alphabet.decode_char(c), for any alphabet and char
DecodeChar ==
    /\ origin = "none"
    /\ \E alphabet \in Alphabets, c \in Chars :
           /\ result' = decode_char(alphabet, c)
           /\ call' = [alphabet |-> alphabet, arg |-> c]
    /\ origin' = "alphabet"
    /\ op' = "decode_char"
    /\ UNCHANGED <<bytes, raw, orig, cur, path, buf>>
    /\ UNCHANGED gui

\* cur.change_alphabet_with(target), which consumes cur
ChangeAlphabet(target) ==
    /\ cur # NoValue
    /\ Len(path) < MaxHops
    /\ \E r \in {change_alphabet_with(cur, target)} :
           /\ result' = r
           /\ cur' = (IF r.ok THEN r.val ELSE NoValue)
    /\ path' = Append(path, target)
    /\ op' = "change_alphabet"
    /\ buf' = <<>>
    /\ UNCHANGED <<bytes, raw, origin, orig, call>>
    /\ UNCHANGED gui

\* ------------------------------------------- the first two generations
\* BitReader: bit i (from 0, most significant first) of a byte slice
relative_bit(data, i) == (data[(i \div 8) + 1] \div Pow2(7 - (i % 8))) % 2

\* BitReader::read_u8(bit_count) at bit `pos`: the next bits, first bit highest
RECURSIVE read_u8(_, _, _)
read_u8(data, pos, bit_count) ==
    IF bit_count = 0 THEN 0
    ELSE 2 * read_u8(data, pos, bit_count - 1)
             + relative_bit(data, pos + bit_count - 1)

\* u8::overflowing_shl(rhs).0, for rhs < 8
overflowing_shl(x, rhs) == (x * Pow2(rhs)) % 256

\* Iterator::flatten().collect() on the groups of 4 chars
RECURSIVE flatten(_)
flatten(groups) == IF groups = <<>> THEN <<>> ELSE Head(groups) \o flatten(Tail(groups))

\* src/lib.rs: Base64String::PADDING and Base64String::ENCODE_MAP
PADDING == 61
ENCODE_MAP == StandardMap

encode_triplet_v1(triple) ==
    <<ENCODE_MAP[read_u8(triple, 0, 6) + 1],
      ENCODE_MAP[read_u8(triple, 6, 6) + 1],
      ENCODE_MAP[read_u8(triple, 12, 6) + 1],
      ENCODE_MAP[read_u8(triple, 18, 6) + 1]>>

\* encode_singlet that shifts the 2 leftover bits by 2, not by 4
encode_singlet_v1_shl2(rem) ==
    <<ENCODE_MAP[read_u8(rem, 0, 6) + 1],
      ENCODE_MAP[overflowing_shl(read_u8(rem, 6, 2), 2) + 1],
      PADDING, PADDING>>

\* Encodes a single byte & pads it
encode_singlet_v1(rem) ==
    <<ENCODE_MAP[read_u8(rem, 0, 6) + 1],
      ENCODE_MAP[overflowing_shl(read_u8(rem, 6, 2), 4) + 1],
      PADDING, PADDING>>

\* Encodes a set of 2 bytes & pads it
encode_doublet_v1(rem) ==
    <<ENCODE_MAP[read_u8(rem, 0, 6) + 1],
      ENCODE_MAP[read_u8(rem, 6, 6) + 1],
      ENCODE_MAP[overflowing_shl(read_u8(rem, 12, 4), 2) + 1],
      PADDING>>

\* the match on rem.len() of encode
encode_rem_v1(rem) ==
    IF Len(rem) = 0 THEN <<>>
    ELSE IF Len(rem) = 1 THEN <<encode_singlet_v1(rem)>>
    ELSE IF Len(rem) = 2 THEN <<encode_doublet_v1(rem)>>
    ELSE <<Unreachable>>

\* src/lib.rs: Base64String::encode, the text of the value it returns
encode_v1(bytes_) ==
    flatten([i \in DOMAIN chunks_exact(bytes_, 3) |->
                 encode_triplet_v1(chunks_exact(bytes_, 3)[i])]
            \o encode_rem_v1(remainder(bytes_, 3)))

\* src/base64string.rs: A::PADDING and A::encode_bits of Standard
PADDING_v2 == padding("Standard")
encode_bits_v2(bits) == encode_bits("Standard", bits)

encode_triplet_v2(triple) ==
    Try(encode_bits_v2(read_u8(triple, 0, 6)), LAMBDA first :
    Try(encode_bits_v2(read_u8(triple, 6, 6)), LAMBDA second :
    Try(encode_bits_v2(read_u8(triple, 12, 6)), LAMBDA third :
    Try(encode_bits_v2(read_u8(triple, 18, 6)), LAMBDA fourth :
    Ok(<<first, second, third, fourth>>)))))

encode_singlet_v2(rem) ==
    Try(encode_bits_v2(read_u8(rem, 0, 6)), LAMBDA first :
    Try(encode_bits_v2(overflowing_shl(read_u8(rem, 6, 2), 4)), LAMBDA second :
    Ok(<<first, second, PADDING_v2, PADDING_v2>>)))

encode_doublet_v2(rem) ==
    Try(encode_bits_v2(read_u8(rem, 0, 6)), LAMBDA first :
    Try(encode_bits_v2(read_u8(rem, 6, 6)), LAMBDA second :
    Try(encode_bits_v2(overflowing_shl(read_u8(rem, 12, 4), 2)), LAMBDA third :
    Ok(<<first, second, third, PADDING_v2>>))))

\* the while loop of encode from chunk i on, `encoded` flattened
RECURSIVE encode_loop_v2(_, _, _)
encode_loop_v2(cs, i, encoded) ==
    IF i > Len(cs) THEN Ok(encoded)
    ELSE Try(encode_triplet_v2(cs[i]), LAMBDA quad :
         encode_loop_v2(cs, i + 1, encoded \o quad))

\* src/base64string.rs: Base64String::<Standard>::encode, the text of the
\* value it returns
encode_v2(bytes_) ==
    Try(encode_loop_v2(chunks_exact(bytes_, 3), 1, <<>>), LAMBDA encoded :
    Let(remainder(bytes_, 3), LAMBDA rem :
        IF Len(rem) = 0 THEN Ok(encoded)
        ELSE IF Len(rem) = 1 THEN
            Try(encode_singlet_v2(rem), LAMBDA quad : Ok(encoded \o quad))
        ELSE IF Len(rem) = 2 THEN
            Try(encode_doublet_v2(rem), LAMBDA quad : Ok(encoded \o quad))
        ELSE Err(Unreachable)))

\* the byte sequences of ByteSeqs, and those of up to one chunk with any u8
\* in one place
WideByteSeqs ==
    ByteSeqs \cup UNION {{[s EXCEPT ![i] = b] : i \in DOMAIN s, b \in U8} :
                            s \in {t \in ByteSeqs : Len(t) \in 1..3}}

\* Base64String::encode(data) of src/lib.rs, for any bytes
EncodeV1 ==
    /\ origin = "none"
    /\ \E data \in WideByteSeqs :
           /\ result' = Ok(encode_v1(data))
           /\ bytes' = data
    /\ origin' = "encode_v1"
    /\ op' = "encode_v1"
    /\ UNCHANGED <<raw, orig, cur, path, buf, call>>
    /\ UNCHANGED gui

\* Base64String::<Standard>::encode(data) of src/base64string.rs
EncodeV2 ==
    /\ origin = "none"
    /\ \E data \in WideByteSeqs :
           /\ result' = encode_v2(data)
           /\ bytes' = data
    /\ origin' = "encode_v2"
    /\ op' = "encode_v2"
    /\ UNCHANGED <<raw, orig, cur, path, buf, call>>
    /\ UNCHANGED gui

\* ----------------------------------------------------------------- the CLI
\* Base64String::<A>::encode(bytes), A::default() being the alphabet
encode(bytes_, alphabet) == encode_with(bytes_, alphabet)

\* Base64String::<A>::from_encoded(b64)
from_encoded(b64, alphabet) == from_encoded_with(b64, alphabet)

\* the text `baze64 encode` prints, or the error it ends with
cli_encode(data, alphabet, no_padding) ==
    Try(encode(data, alphabet), LAMBDA b64 :
    Ok(IF ~no_padding THEN b64.content ELSE without_padding(b64)))

\* the bytes `baze64 decode` writes, or the error it ends with
cli_decode(base64, alphabet) == decode(from_encoded(base64, alphabet))

\* baze64 encode [-f FILE | STRING] -a alphabet [--no-padding]
CliEncode ==
    /\ origin = "none"
    /\ \E data \in ByteSeqs, alphabet \in Rfc4648Alphabets, no_padding \in BOOLEAN :
           /\ result' = cli_encode(data, alphabet, no_padding)
           /\ bytes' = data
           /\ call' = [alphabet |-> alphabet, arg |-> IF no_padding THEN 1 ELSE 0]
    /\ origin' = "cli_encode"
    /\ op' = "cli_encode"
    /\ UNCHANGED <<raw, orig, cur, path, buf>>
    /\ UNCHANGED gui

\* baze64 decode base64 -a alphabet; orig is the value it wraps
CliDecodeOf(base64) ==
    /\ \E alphabet \in Rfc4648Alphabets :
           /\ result' = cli_decode(base64, alphabet)
           /\ orig' = from_encoded(base64, alphabet)
    /\ raw' = base64
    /\ op' = "cli_decode"
    /\ UNCHANGED <<bytes, cur, path, buf, call>>
    /\ UNCHANGED gui

\* baze64 decode on any text, or on the text baze64 encode has printed
CliDecode ==
    \/ /\ origin = "none"
       /\ \E base64 \in RawTexts : CliDecodeOf(base64)
       /\ origin' = "cli_decode"
    \/ /\ op = "cli_encode"
       /\ result.ok
       /\ CliDecodeOf(result.val)
       /\ UNCHANGED origin

\* ----------------------------------------------------------------- the GUI
\* char::encode_utf8
encode_utf8(c) ==
    IF c < 128 THEN <<c>>
    ELSE IF c < 2048 THEN <<192 + (c \div 64), 128 + (c % 64)>>
    ELSE IF c < 65536 THEN
        <<224 + (c \div 4096), 128 + ((c \div 64) % 64), 128 + (c % 64)>>
    ELSE <<240 + (c \div 262144), 128 + ((c \div 4096) % 64),
           128 + ((c \div 64) % 64), 128 + (c % 64)>>

\* as_bytes that takes each char as one byte
RECURSIVE as_bytes_truncating(_)
as_bytes_truncating(text) ==
    IF text = <<>> THEN <<>>
    ELSE <<Head(text) % 256>> \o as_bytes_truncating(Tail(text))

\* str::as_bytes: the UTF-8 bytes of a text
RECURSIVE as_bytes(_)
as_bytes(text) ==
    IF text = <<>> THEN <<>> ELSE encode_utf8(Head(text)) \o as_bytes(Tail(text))

\* U+FFFD REPLACEMENT CHARACTER
REPLACEMENT == 65533
\* the byte at i, 0 past the end
safe_get(v, i) == IF i <= Len(v) THEN v[i] ELSE 0
\* a continuation byte 10xxxxxx
is_continuation(b) == b \div 64 = 2
\* the second byte allowed after the first byte of a 3-byte sequence
second_of_three(first, b) ==
    \/ first = 224 /\ b \in 160..191
    \/ first \in 225..236 /\ b \in 128..191
    \/ first = 237 /\ b \in 128..159
    \/ first \in 238..239 /\ b \in 128..191
\* the second byte allowed after the first byte of a 4-byte sequence
second_of_four(first, b) ==
    \/ first = 240 /\ b \in 144..191
    \/ first \in 241..243 /\ b \in 128..191
    \/ first = 244 /\ b \in 128..143

\* one step of Utf8Chunks at byte i: the char read, or REPLACEMENT for the
\* longest invalid prefix, and the place of the next step
utf8_step(v, i) ==
    Let(v[i], LAMBDA first :
    Let(safe_get(v, i + 1), LAMBDA b1 :
    Let(safe_get(v, i + 2), LAMBDA b2 :
    Let(safe_get(v, i + 3), LAMBDA b3 :
        IF first < 128 THEN [char |-> first, next |-> i + 1]
        ELSE IF first \in 194..223 THEN
            IF ~is_continuation(b1) THEN [char |-> REPLACEMENT, next |-> i + 1]
            ELSE [char |-> (first % 32) * 64 + (b1 % 64), next |-> i + 2]
        ELSE IF first \in 224..239 THEN
            IF ~second_of_three(first, b1) THEN [char |-> REPLACEMENT, next |-> i + 1]
            ELSE IF ~is_continuation(b2) THEN [char |-> REPLACEMENT, next |-> i + 2]
            ELSE [char |-> (first % 16) * 4096 + (b1 % 64) * 64 + (b2 % 64),
                  next |-> i + 3]
        ELSE IF first \in 240..244 THEN
            IF ~second_of_four(first, b1) THEN [char |-> REPLACEMENT, next |-> i + 1]
            ELSE IF ~is_continuation(b2) THEN [char |-> REPLACEMENT, next |-> i + 2]
            ELSE IF ~is_continuation(b3) THEN [char |-> REPLACEMENT, next |-> i + 3]
            ELSE [char |-> (first % 8) * 262144 + (b1 % 64) * 4096
                               + (b2 % 64) * 64 + (b3 % 64),
                  next |-> i + 4]
        ELSE [char |-> REPLACEMENT, next |-> i + 1]))))

RECURSIVE lossy_from(_, _)
lossy_from(v, i) ==
    IF i > Len(v) THEN <<>>
    ELSE Let(utf8_step(v, i), LAMBDA step : <<step.char>> \o lossy_from(v, step.next))

\* String::from_utf8_lossy(v).to_string()
from_utf8_lossy(v) == lossy_from(v, 1)

\* u8's Display: the decimal digits
decimal(n) ==
    IF n < 10 THEN <<48 + n>>
    ELSE IF n < 100 THEN <<48 + (n \div 10), 48 + (n % 10)>>
    ELSE <<48 + (n \div 100), 48 + ((n \div 10) % 10), 48 + (n % 10)>>

\* B64Error's Display (DecodeError is transparent)
display(e) ==
    IF e[1] = "InvalidChar" THEN
        <<73, 110, 118, 97, 108, 105, 100, 32, 66, 97, 115, 101, 54, 52, 32, 99, 104, 97, 114, 97, 99, 116, 101, 114, 32, 96>> \o <<e[2], 96>>
    ELSE
        <<86, 97, 108, 117, 101, 32, 96>> \o decimal(e[2]) \o <<96, 32, 105, 115, 32, 111, 117, 116, 115, 105, 116, 101, 32, 116, 104, 101, 32, 54, 45, 98, 105, 116, 32, 105, 110, 116, 101, 103, 101, 114, 32, 114, 97, 110, 103, 101>>

\* format!("Error: {e}")
error_text(e) == <<69, 114, 114, 111, 114, 58, 32>> \o display(e)

\* the base64 field after an Encode click
encode_click(plaintext, alphabet) ==
    Match(encode_with(as_bytes(plaintext), alphabet),
          LAMBDA t : t.content,
          LAMBDA r : error_text(r.err))

\* the plaintext field after a Decode click
decode_click(base64, alphabet) ==
    Match(decode(from_encoded_with(base64, alphabet)),
          LAMBDA d : from_utf8_lossy(d),
          LAMBDA r : error_text(r.err))

\* texts typed into the plaintext field
PlainTexts == SeqsUpTo(PlainChars, MaxPlain)
\* chars typed into the base64 field: '+' (a symbol of Standard only), '='
\* and 'Q'
Base64Chars == {43, 61, 81}
\* texts typed into the base64 field
Base64Texts == SeqsUpTo(Base64Chars, MaxRaw)

\* the user edits the plaintext field
EditPlaintext ==
    /\ \E text \in PlainTexts :
           /\ text # app.plaintext
           /\ app' = [app EXCEPT !.plaintext = text]
    /\ op' = "edit_plaintext"
    /\ prev' = NoPlain
    /\ UNCHANGED lib

\* the user edits the base64 field
EditBase64 ==
    /\ \E text \in Base64Texts :
           /\ text # app.base64
           /\ app' = [app EXCEPT !.base64 = text]
    /\ op' = "edit_base64"
    /\ prev' = NoPlain
    /\ UNCHANGED lib

\* the user selects the other alphabet in the combo box
SelectAlphabet ==
    /\ \E alphabet \in Rfc4648Alphabets :
           /\ alphabet # app.alphabet
           /\ app' = [app EXCEPT !.alphabet = alphabet]
    /\ op' = "select_alphabet"
    /\ prev' = NoPlain
    /\ UNCHANGED lib

\* the "-> Encode" button is clicked
EncodeClick ==
    /\ op' = "encode_click"
    /\ prev' = app.plaintext
    /\ app' = [app EXCEPT !.base64 = encode_click(app.plaintext, app.alphabet)]
    /\ UNCHANGED lib

\* the "Decode <-" button is clicked
DecodeClick ==
    /\ op' = "decode_click"
    /\ prev' = (IF op = "encode_click" THEN prev ELSE NoPlain)
    /\ app' = [app EXCEPT !.plaintext = decode_click(app.base64, app.alphabet)]
    /\ UNCHANGED lib

GuiNext ==
    \/ EditPlaintext
    \/ EditBase64
    \/ SelectAlphabet
    \/ EncodeClick
    \/ DecodeClick

GuiSpec == Init /\ [][GuiNext]_vars

Next ==
    \/ EncodeV1
    \/ EncodeV2
    \/ CliEncode
    \/ CliDecode
    \/ Encode
    \/ FromEncoded
    \/ Decode
    \/ DecodeInto
    \/ WithoutPadding
    \/ FromEncodedAgain
    \/ \E a \in Alphabets : ChangeAlphabet(a)
    \/ EncodeBits
    \/ DecodeChar

Spec == Init /\ [][Next]_vars

\* ------------------------------------------------------------------ claims
Symbols(alphabet) == {encode_map(alphabet)[i] : i \in 1..64}

\* the state right after encode_with under Standard or UrlSafe
Encoded == op = "encode" /\ cur.alphabet \in Rfc4648Alphabets

\* the state right after decoding a value that encode_with produced under
\* Standard or UrlSafe
DecodedEncoding ==
    /\ op = "decode"
    /\ origin = "encode"
    /\ path = <<>>
    /\ cur.alphabet \in Rfc4648Alphabets

\* C1: round trip: decoding the text that encode_with produced from bytes b
\* under Standard or UrlSafe succeeds and returns exactly b.
C1_RoundTrip == DecodedEncoding => result = Ok(bytes)

C1_Witness ==
    /\ DecodedEncoding
    /\ cur.alphabet = "UrlSafe"
    /\ bytes = <<251, 251, 0, 251>>
    /\ result = Ok(bytes)

\* The RFC 4648 encoding, from its definition on the bit stream: the bytes'
\* bits most significant first, zero-filled to a multiple of 6, each 6 bits
\* mapped through the Standard table, '=' appended to a multiple of 4 chars.
ByteBits(b) == [i \in 1..8 |-> (b \div Pow2(8 - i)) % 2]

RECURSIVE BitStream(_)
BitStream(bs) == IF bs = <<>> THEN <<>> ELSE ByteBits(Head(bs)) \o BitStream(Tail(bs))

RECURSIVE ZeroFill(_)
ZeroFill(bits) == IF Len(bits) % 6 = 0 THEN bits ELSE ZeroFill(Append(bits, 0))

SixBitValue(g) == 32 * g[1] + 16 * g[2] + 8 * g[3] + 4 * g[4] + 2 * g[5] + g[6]

RECURSIVE EqualsFill(_)
EqualsFill(text) == IF Len(text) % 4 = 0 THEN text ELSE EqualsFill(Append(text, 61))

Rfc4648Encode(bs) ==
    LET bits == ZeroFill(BitStream(bs))
    IN  EqualsFill([k \in 1..(Len(bits) \div 6) |->
                       StandardMap[SixBitValue(SubSeq(bits, 6 * k - 5, 6 * k)) + 1]])

\* C2: under Standard, encode_with succeeds and its text is the RFC 4648
\* encoding of the input bytes.
C2_Rfc4648Reference ==
    (op = "encode" /\ cur.alphabet = "Standard")
        => (result.ok /\ cur.content = Rfc4648Encode(bytes))

\* 0xFB 0xFB 0xFB encodes to "+/v7"
C2_Witness ==
    /\ op = "encode"
    /\ cur.alphabet = "Standard"
    /\ bytes = <<251, 251, 251>>
    /\ cur.content = <<43, 47, 118, 55>>

\* C4: length law: encode_with under Standard or UrlSafe yields exactly
\* 4 * ceil(n / 3) chars for n bytes, and the empty text for no bytes.
C4_LengthLaw ==
    Encoded =>
        /\ result.ok
        /\ Len(cur.content) = 4 * ((Len(bytes) + 2) \div 3)
        /\ (bytes = <<>> => cur.content = <<>>)

C4_Witness ==
    /\ Encoded
    /\ Len(bytes) = 4
    /\ Len(cur.content) = 8

PadCount(text, p) == Cardinality({i \in 1..Len(text) : text[i] = p})

\* C5: padding law: the text encode_with yields under Standard or UrlSafe
\* holds 0, 2 or 1 padding chars when the input length is 0, 1 or 2 mod 3,
\* and no padding char is followed by a char that is not padding.
C5_PaddingLaw ==
    Encoded =>
        /\ PadCount(cur.content, 61) =
               (CASE Len(bytes) % 3 = 0 -> 0
                  [] Len(bytes) % 3 = 1 -> 2
                  [] Len(bytes) % 3 = 2 -> 1)
        /\ \A i \in 1..Len(cur.content) :
               cur.content[i] = 61 =>
                   \A j \in i..Len(cur.content) : cur.content[j] = 61

C5_Witness ==
    /\ Encoded
    /\ Len(bytes) = 1
    /\ PadCount(cur.content, 61) = 2
    /\ cur.content[3] = 61

\* a char that is neither one of the alphabet's 64 symbols nor its padding
Invalid(alphabet, c) == c \notin Symbols(alphabet) /\ c # padding(alphabet)

FirstInvalid(alphabet, text) ==
    text[CHOOSE i \in 1..Len(text) :
             /\ Invalid(alphabet, text[i])
             /\ \A j \in 1..(i - 1) : ~Invalid(alphabet, text[j])]

\* C3: decoding a text wrapped by from_encoded_with under Standard or
\* UrlSafe that holds a char that is neither a symbol nor the padding char
\* returns InvalidChar of the first such char.
C3_InvalidCharSurfaced ==
    (/\ op = "decode"
     /\ origin = "from_encoded"
     /\ path = <<>>
     /\ cur.alphabet \in Rfc4648Alphabets
     /\ \E i \in 1..Len(raw) : Invalid(cur.alphabet, raw[i]))
        => result = Err(InvalidChar(FirstInvalid(cur.alphabet, raw)))

\* C6: when the number of chars held is 2 or 3 mod 4 and every char is a
\* symbol, decode returns 3 bytes for each full group of 4 and 1 or 2 bytes
\* for the trailing group of 2 or 3 chars.
C6_TrailingGroupDecoded ==
    (/\ op = "decode"
     /\ path = <<>>
     /\ Len(cur.content) % 4 \in {2, 3}
     /\ \A i \in 1..Len(cur.content) : cur.content[i] \in Symbols(cur.alphabet))
        => /\ result.ok
           /\ Len(result.val) = 3 * (Len(cur.content) \div 4) + (Len(cur.content) % 4) - 1

\* the value went to alphabet B and back to its own alphabet A, A and B
\* among Standard and UrlSafe
ThereAndBack ==
    /\ op = "change_alphabet"
    /\ Len(path) = 2
    /\ orig.alphabet \in Rfc4648Alphabets
    /\ path[1] \in Rfc4648Alphabets
    /\ path[2] = orig.alphabet

\* the text is what encode_with yields for the bytes it decodes to
Canonical(x) ==
    LET d == decode(x)
    IN  /\ d.ok
        /\ encode_with(d.val, x.alphabet) = Ok(x)

\* C7 as stated: changing the alphabet of x to B and back to A succeeds and
\* restores the text of x, for x made by encode_with or by from_encoded_with
\* from a text of A's symbols and padding.
C7_AsStated ==
    (/\ ThereAndBack
     /\ \/ origin = "encode"
        \/ /\ origin = "from_encoded"
           /\ \A i \in 1..Len(raw) : ~Invalid(orig.alphabet, raw[i]))
        => (result.ok /\ cur.content = orig.content)

\* C7 amended: changing the alphabet of x to B and back to A succeeds and
\* restores the text of x, for x made by encode_with, or by from_encoded_with
\* when the wrapped text is the encoding under A of the bytes it decodes to.
C7_AlphabetRoundTrip ==
    (/\ ThereAndBack
     /\ \/ origin = "encode"
        \/ origin = "from_encoded" /\ Canonical(orig))
        => (result.ok /\ cur.content = orig.content)

\* "+/v7AA==" went to UrlSafe and back
C7_Witness ==
    /\ ThereAndBack
    /\ origin = "encode"
    /\ bytes = <<251, 251, 251, 0>>
    /\ path = <<"UrlSafe", "Standard">>
    /\ cur.content = <<43, 47, 118, 55, 65, 65, 61, 61>>

\* C8: change_alphabet_with preserves the payload: when decode of x
\* succeeds, the change succeeds and the new value decodes to the same bytes;
\* when decode of x fails, the change fails with the same error.
C8_PayloadPreserved ==
    /\ (op = "change_alphabet" /\ Len(path) = 1) =>
           LET d == decode(orig)
           IN  IF d.ok THEN result.ok /\ cur.alphabet = path[1]
               ELSE result = d /\ cur = NoValue
    /\ (op = "decode" /\ Len(path) = 1) => result = decode(orig)

\* "Q+==" wrapped under Standard, changed to UrlSafe, decoded
C8_Witness ==
    /\ op = "decode"
    /\ origin = "from_encoded"
    /\ raw = <<81, 43>>
    /\ orig.alphabet = "Standard"
    /\ path = <<"UrlSafe">>
    /\ result = Ok(<<67>>)

\* C9: the text encode_with yields consists of symbols of the alphabet
\* followed by at most 2 of the alphabet's padding chars, for every alphabet,
\* one without padding included.
C9_EncodedShape ==
    op = "encode" =>
        /\ result.ok
        /\ \E k \in 0..2 :
               /\ k <= Len(cur.content)
               /\ k > 0 => padding(cur.alphabet) # None
               /\ \A i \in 1..Len(cur.content) :
                      IF i <= Len(cur.content) - k
                      THEN cur.content[i] \in Symbols(cur.alphabet)
                      ELSE cur.content[i] = padding(cur.alphabet)

\* C10: from_encoded_with under an alphabet with a padding char yields the
\* raw text followed by 0 to 3 padding chars, a multiple of 4 chars in all.
C10_LengthNormalized ==
    (op = "from_encoded" /\ padding(cur.alphabet) # None)
        => /\ Len(cur.content) % 4 = 0
           /\ Len(cur.content) - Len(raw) \in 0..3
           /\ SubSeq(cur.content, 1, Len(raw)) = raw
           /\ \A i \in (Len(raw) + 1)..Len(cur.content) :
                  cur.content[i] = padding(cur.alphabet)

\* C11: from_encoded_with appends nothing to a text whose length
\* (String::len, in bytes) is a multiple of 4, and wrapping the text of any
\* value again, under its alphabet, yields a value equal to it.
C11_IdempotentNormalization ==
    /\ (op = "from_encoded" /\ str_len(raw) % 4 = 0) => cur.content = raw
    /\ op = "from_encoded_again" => result = Ok(cur)

\* "Q+" was wrapped as "Q+==", and "Q+==" was wrapped again
C11_Witness ==
    /\ op = "from_encoded_again"
    /\ origin = "from_encoded"
    /\ raw = <<81, 43>>
    /\ path = <<>>
    /\ cur.content = <<81, 43, 61, 61>>
    /\ result = Ok(cur)

\* a decode_char call on Standard or UrlSafe
DecodeCharCalled == op = "decode_char" /\ call.alphabet \in Rfc4648Alphabets

\* an encode_bits call on Standard or UrlSafe
EncodeBitsCalled == op = "encode_bits" /\ call.alphabet \in Rfc4648Alphabets

\* C12: every value decode_char returns for Standard and UrlSafe is in 0..63.
C12_DecodeCharSixBits ==
    (DecodeCharCalled /\ result.ok) => result.val \in 0..63

\* C13: for Standard and UrlSafe, encode_bits maps 0..63 to 64 distinct
\* chars, none of them '=', and decode_char and encode_bits are inverse to
\* each other on 0..63 and the 64 symbols.
C13_AlphabetBijection ==
    /\ (EncodeBitsCalled /\ call.arg <= 63) =>
           /\ result.ok
           /\ result.val # padding(call.alphabet)
           /\ decode_char(call.alphabet, result.val) = Ok(call.arg)
           /\ \A w \in 0..63 :
                  w # call.arg => encode_bits(call.alphabet, w) # result
    /\ (DecodeCharCalled /\ call.arg \in Symbols(call.alphabet)) =>
           /\ result.ok
           /\ encode_bits(call.alphabet, result.val) = Ok(call.arg)
    /\ DecodeCharCalled => Cardinality(Symbols(call.alphabet)) = 64

\* '/' decoded to 63 under Standard
C13_Witness ==
    /\ DecodeCharCalled
    /\ call = [alphabet |-> "Standard", arg |-> 47]
    /\ result = Ok(63)

\* the chunk as encode_with hands it to encode_triplet, zero-extended
ZeroExtended(chunk) == [i \in 1..3 |-> IF i <= Len(chunk) THEN chunk[i] ELSE 0]

\* C14: encode_bits returns BitsOOB(v) exactly when v > 63 and a symbol
\* otherwise; encode_with (under Standard, UrlSafe and any other alphabet)
\* passes only values in 0..63 to encode_bits and never fails.
C14_BitsOutOfRangeUnreachable ==
    /\ EncodeBitsCalled =>
           IF call.arg > 63 THEN result = Err(BitsOOB(call.arg))
           ELSE result.ok /\ result.val \in Symbols(call.alphabet)
    /\ op = "encode" =>
           /\ result.ok
           /\ \A i \in DOMAIN chunks(bytes, 3) : \A k \in 1..4 :
                  triplet_bits(ZeroExtended(chunks(bytes, 3)[i]))[k] \in 0..63

C14_Witness ==
    /\ EncodeBitsCalled
    /\ call = [alphabet |-> "UrlSafe", arg |-> 64]
    /\ result = Err(BitsOOB(64))

\* C15: the text encode_with yields under UrlSafe is the text it yields
\* under Standard with every '+' replaced by '-' and every '/' by '_', and
\* is the same in every other place.
C15_AlphabetSubstitution ==
    (op = "encode" /\ cur.alphabet = "UrlSafe") =>
        \E std \in {encode_with(bytes, "Standard")} :
            /\ std.ok
            /\ cur.content = to_url_safe(std.val.content)
            /\ Len(cur.content) = Len(std.val.content)
            /\ \A i \in 1..Len(cur.content) :
                   std.val.content[i] \notin {43, 47}
                       => cur.content[i] = std.val.content[i]

\* 0xFB 0xFB 0xFB encodes to "-_v7" under UrlSafe
C15_Witness ==
    /\ op = "encode"
    /\ cur.alphabet = "UrlSafe"
    /\ bytes = <<251, 251, 251>>
    /\ cur.content = <<45, 95, 118, 55>>

\* C16: without_padding returns the held text without the occurrences of
\* the alphabet's padding char, every other char kept in order.
C16_WithoutPaddingProjection ==
    op = "without_padding" =>
        result = Ok(SelectSeq(cur.content, LAMBDA c : c # padding(cur.alphabet)))

\* the 6-bit value of a symbol, 0 for the padding char
SymbolValue(alphabet, c) ==
    IF c = padding(alphabet) THEN 0
    ELSE CHOOSE v \in 0..63 : encode_map(alphabet)[v + 1] = c

\* the bytes of one group of 4 chars, by arithmetic on the 6-bit values
GroupBytes(alphabet, g) ==
    LET v1 == SymbolValue(alphabet, g[1])
        v2 == SymbolValue(alphabet, g[2])
        v3 == SymbolValue(alphabet, g[3])
        v4 == SymbolValue(alphabet, g[4])
        twelve == 64 * v1 + v2
        eighteen == 64 * twelve + v3
        twentyfour == 64 * eighteen + v4
    IN  IF g[3] = padding(alphabet) /\ g[4] = padding(alphabet)
        THEN <<twelve \div 16>>
        ELSE IF g[4] = padding(alphabet)
        THEN <<eighteen \div 1024, (eighteen \div 4) % 256>>
        ELSE <<twentyfour \div 65536, (twentyfour \div 256) % 256, twentyfour % 256>>

RECURSIVE TextBytes(_, _)
TextBytes(alphabet, text) ==
    IF Len(text) < 4 THEN <<>>
    ELSE GroupBytes(alphabet, SubSeq(text, 1, 4))
             \o TextBytes(alphabet, SubSeq(text, 5, Len(text)))

\* a value of Standard or UrlSafe was decoded whose text is whole groups of
\* 4 chars, each char a symbol or the padding char
ValidGroupsDecoded ==
    /\ op = "decode"
    /\ cur.alphabet \in Rfc4648Alphabets
    /\ Len(cur.content) % 4 = 0
    /\ \A i \in 1..Len(cur.content) : ~Invalid(cur.alphabet, cur.content[i])

\* C17: each group of 4 valid chars decodes to the top 8 bits of its first
\* two values when it ends in two padding chars, to the top 16 bits of its
\* first three values when it ends in one, and to the 3 bytes of its four
\* values otherwise; the groups' bytes come in text order.
C17_PerGroupOutput ==
    ValidGroupsDecoded => result = Ok(TextBytes(cur.alphabet, cur.content))

\* "QQQQQ+==" under Standard decodes to 0x41 0x04 0x10 0x43
C17_Witness ==
    /\ ValidGroupsDecoded
    /\ cur = Base64String(<<81, 81, 81, 81, 81, 43, 61, 61>>, "Standard")
    /\ result = Ok(<<65, 4, 16, 67>>)

\* C18: encode_with never reaches its unreachable branch (every chunk has 1,
\* 2 or 3 bytes; in the first generation's encode every exact chunk has 3
\* bytes and the remainder 0, 1 or 2), and decode and decode_into end with Ok
\* or InvalidChar, on segments of exactly 4 chars.
C18_Totality ==
    /\ op = "encode" =>
           /\ result.ok \/ result.err[1] # "panic"
           /\ \A i \in DOMAIN chunks(bytes, 3) : Len(chunks(bytes, 3)[i]) \in 1..3
           /\ Len(remainder(bytes, 3)) \in 0..2
           /\ \A i \in DOMAIN chunks_exact(bytes, 3) : Len(chunks_exact(bytes, 3)[i]) = 3
    /\ op \in {"decode", "decode_into"} =>
           /\ result.ok \/ result.err[1] = "InvalidChar"
           /\ \A i \in DOMAIN chunks_exact(cur.content, 4) :
                  Len(chunks_exact(cur.content, 4)[i]) = 4

\* "QQQQ+" under UrlSafe: decode ends with InvalidChar('+') in its 2nd group
C18_Witness ==
    /\ op = "decode"
    /\ raw = <<81, 81, 81, 81, 43>>
    /\ cur.alphabet = "UrlSafe"
    /\ path = <<>>
    /\ result = Err(InvalidChar(43))

\* the symbol of the value 0
ZeroSymbol(alphabet) == encode_map(alphabet)[1]

\* the last group of 4 chars of a text of whole groups
LastGroup(text) == SubSeq(text, Len(text) - 3, Len(text))

\* a value of Standard or UrlSafe was decoded whose last group is symbols
\* followed by one or two padding chars
PaddedGroupDecoded ==
    /\ ValidGroupsDecoded
    /\ Len(cur.content) >= 4
    /\ cur.content[Len(cur.content)] = padding(cur.alphabet)
    /\ \A i \in 1..(Len(cur.content) - 2) : cur.content[i] \in Symbols(cur.alphabet)
    /\ ~Invalid(cur.alphabet, cur.content[Len(cur.content) - 1])

\* the 3 bytes of a group with the symbol of value 0 in place of its
\* padding chars
WithZero(alphabet, g) ==
    decode_quad([i \in 1..4 |-> IF g[i] = padding(alphabet)
                                THEN ZeroSymbol(alphabet) ELSE g[i]], alphabet).val

\* the first symbols with which the triples of symbols are formed: those of
\* the values 000000, 010101, 101010 and 111111
FirstSymbols(alphabet) == {encode_map(alphabet)[v + 1] : v \in {0, 21, 42, 63}}

\* C19: the bytes emitted for a group that ends in padding are those that
\* decode_quad gives with the symbol of value 0 in the missing places: the
\* 0x64 that stands for NUL adds no bit to them.  This holds for the last
\* group of every decoded text, for every pair of symbols, and for every
\* triple of symbols that starts with one of FirstSymbols.
C19_SentinelDoesNotLeak ==
    /\ PaddedGroupDecoded =>
           LET g == LastGroup(cur.content)
               n == Len(result.val)
           IN  /\ result.ok
               /\ IF g[3] = padding(cur.alphabet)
                  THEN SubSeq(result.val, n, n) = SubSeq(WithZero(cur.alphabet, g), 1, 1)
                  ELSE SubSeq(result.val, n - 1, n) = SubSeq(WithZero(cur.alphabet, g), 1, 2)
    /\ op = "none" =>
           \A alphabet \in Rfc4648Alphabets :
               /\ \A a \in Symbols(alphabet), b \in Symbols(alphabet) :
                      decode_seg(<<a, b, padding(alphabet), padding(alphabet)>>,
                                 alphabet, padding(alphabet)).val
                          = SubSeq(WithZero(alphabet, <<a, b, padding(alphabet),
                                                        padding(alphabet)>>), 1, 1)
               /\ \A a \in FirstSymbols(alphabet) :
                      \A b \in Symbols(alphabet), c \in Symbols(alphabet) :
                          decode_seg(<<a, b, c, padding(alphabet)>>,
                                     alphabet, padding(alphabet)).val
                              = SubSeq(WithZero(alphabet, <<a, b, c, padding(alphabet)>>), 1, 2)

\* "Q+" was wrapped as "Q+==" and decoded to 0x43: the low bit of '+' and
\* the 0x64 of the first NUL meet in bit 12, below the byte that is kept
C19_Witness ==
    /\ PaddedGroupDecoded
    /\ origin = "from_encoded"
    /\ path = <<>>
    /\ cur = Base64String(<<81, 43, 61, 61>>, "Standard")
    /\ result = Ok(<<67>>)

\* the bytes of the first n segments, when each of them decodes
RECURSIVE WrittenBefore(_, _, _, _)
WrittenBefore(segments, n, alphabet, pad) ==
    IF n = 0 THEN <<>>
    ELSE WrittenBefore(segments, n - 1, alphabet, pad)
             \o decode_seg(segments[n], alphabet, pad).val

\* C20: when decode_into fails in its k-th segment, buf holds the bytes of
\* the segments 1..k-1 and nothing more, and when it succeeds buf holds all
\* the bytes; decode returns the error alone.
C20_PartialWrite ==
    /\ op = "decode_into" =>
           LET pad == unwrap_or_default(padding(cur.alphabet))
               segments == chunks_exact(cur.content, 4)
               Fails(k) == ~decode_seg(segments[k], cur.alphabet, pad).ok
           IN  IF \E k \in DOMAIN segments : Fails(k)
               THEN LET k == CHOOSE k \in DOMAIN segments :
                                 Fails(k) /\ \A j \in 1..(k - 1) : ~Fails(j)
                    IN  /\ result = decode_seg(segments[k], cur.alphabet, pad)
                        /\ buf = WrittenBefore(segments, k - 1, cur.alphabet, pad)
               ELSE /\ result.ok
                    /\ buf = WrittenBefore(segments, Len(segments), cur.alphabet, pad)
    /\ (op = "decode" /\ ~result.ok) => DOMAIN result = {"ok", "err"}

\* "QQQQ+" under UrlSafe: buf holds the 3 bytes of "QQQQ" when "+===" fails
C20_Witness ==
    /\ op = "decode_into"
    /\ raw = <<81, 81, 81, 81, 43>>
    /\ cur.alphabet = "UrlSafe"
    /\ path = <<>>
    /\ result = Err(InvalidChar(43))
    /\ buf = <<65, 4, 16>>

\* the i-th char of the text is one of the trailing one or two padding
\* chars of its group of 4
TrailingPadding(alphabet, text, i) ==
    /\ text[i] = padding(alphabet)
    /\ \/ i % 4 = 0
       \/ i % 4 = 3 /\ i < Len(text) /\ text[i + 1] = padding(alphabet)

\* the text with the symbol of value 0 in place of every padding char that
\* is not one of the trailing one or two of its group
ZeroInside(alphabet, text) ==
    [i \in 1..Len(text) |->
        IF text[i] = padding(alphabet) /\ ~TrailingPadding(alphabet, text, i)
        THEN ZeroSymbol(alphabet) ELSE text[i]]

\* the bytes of each group of 4 chars decoded on its own, in text order
RECURSIVE GroupByGroup(_, _)
GroupByGroup(alphabet, text) ==
    IF Len(text) < 4 THEN <<>>
    ELSE decode(Base64String(SubSeq(text, 1, 4), alphabet)).val
             \o GroupByGroup(alphabet, SubSeq(text, 5, Len(text)))

\* the number of bytes a group of 4 chars stands for
GroupLen(alphabet, g) ==
    IF g[4] # padding(alphabet) THEN 3
    ELSE IF g[3] # padding(alphabet) THEN 2 ELSE 1

RECURSIVE TextLen(_, _)
TextLen(alphabet, text) ==
    IF Len(text) < 4 THEN 0
    ELSE GroupLen(alphabet, SubSeq(text, 1, 4))
             + TextLen(alphabet, SubSeq(text, 5, Len(text)))

\* a text of whole groups of symbols and padding chars, with a padding char
\* in it, was decoded under Standard or UrlSafe
PaddingDecoded ==
    /\ ValidGroupsDecoded
    /\ \E i \in 1..Len(cur.content) : cur.content[i] = padding(cur.alphabet)

\* C21: a padding char in any place of a group of 4 does not make decode
\* fail; outside the trailing one or two places of its group it decodes as
\* the symbol of value 0 does; a group that ends in padding before the last
\* group gives its 1 or 2 bytes and the groups after it give theirs.
C21_PaddingAnywhere ==
    PaddingDecoded =>
        /\ result.ok
        /\ result = decode(Base64String(ZeroInside(cur.alphabet, cur.content),
                                        cur.alphabet))
        /\ result.val = GroupByGroup(cur.alphabet, cur.content)
        /\ Len(result.val) = TextLen(cur.alphabet, cur.content)

\* "Q+==Q" was wrapped as "Q+==Q===" and decoded to 0x43 0x40
C21_Witness ==
    /\ PaddingDecoded
    /\ raw = <<81, 43, 61, 61, 81>>
    /\ cur = Base64String(<<81, 43, 61, 61, 81, 61, 61, 61>>, "Standard")
    /\ result = Ok(<<67, 64>>)

\* baze64 decode has run on the text that baze64 encode --no-padding
\* printed, with the same alphabet
DecodedUnpadded ==
    /\ op = "cli_decode"
    /\ origin = "cli_encode"
    /\ call.arg = 1
    /\ orig.alphabet = call.alphabet

\* C22: for Standard and UrlSafe, the text of encode(b) without its padding,
\* wrapped with from_encoded and decoded, gives exactly b.
C22_UnpaddedRoundTrip ==
    DecodedUnpadded =>
        /\ raw = without_padding(encode(bytes, call.alphabet).val)
        /\ orig = from_encoded(raw, call.alphabet)
        /\ result = Ok(bytes)

\* 0xFB 0x00 printed as "-wA" under UrlSafe, wrapped as "-wA=" and decoded
C22_Witness ==
    /\ DecodedUnpadded
    /\ call.alphabet = "UrlSafe"
    /\ bytes = <<251, 0>>
    /\ raw = <<45, 119, 65>>
    /\ orig.content = <<45, 119, 65, 61>>
    /\ result = Ok(<<251, 0>>)

\* an encoder of an earlier generation has run
EarlierEncoded == op \in {"encode_v1", "encode_v2"}

\* C23: for every byte sequence, the encoders of the first two generations
\* (BitReader, encode_singlet and encode_doublet for 1 and 2 leftover bytes)
\* succeed and give the text encode_with gives under the Standard alphabet.
C23_GenerationsAgree ==
    EarlierEncoded =>
        /\ result.ok
        /\ encode_with(bytes, "Standard").ok
        /\ result.val = encode_with(bytes, "Standard").val.content

\* 0xFB 0x00 0xFB 0xFB: the first generation's triplet and singlet give
\* "+wD7+w=="
C23_Witness ==
    /\ op = "encode_v1"
    /\ bytes = <<251, 0, 251, 251>>
    /\ result = Ok(<<43, 119, 68, 55, 43, 119, 61, 61>>)

\* a Decode click has followed an Encode click with nothing in between
EncodedThenDecoded == op = "decode_click" /\ prev # NoPlain

\* C24: an Encode click changes only the base64 field, a Decode click only
\* the plaintext field; after an Encode click and the Decode click that
\* follows it with no edit and no change of alphabet in between, the
\* plaintext is what it was before the Encode click.
C24_GuiRoundTrip ==
    [][/\ op' = "encode_click" => /\ app'.plaintext = app.plaintext
                                  /\ app'.alphabet = app.alphabet
       /\ op' = "decode_click" => /\ app'.base64 = app.base64
                                  /\ app'.alphabet = app.alphabet
       /\ (op = "encode_click" /\ op' = "decode_click") =>
              /\ prev' = prev
              /\ app'.plaintext = prev]_vars

\* U+00E9 U+1F600 under UrlSafe was encoded as "w6nwn5iA" and decoded back
C24_Witness ==
    /\ EncodedThenDecoded
    /\ app.alphabet = "UrlSafe"
    /\ prev = <<233, 128512>>
    /\ app.base64 = <<119, 54, 110, 119, 110, 53, 105, 65>>
    /\ app.plaintext = <<233, 128512>>

====
